---- MODULE Spec2Model ----
(***************************************************************************)
(* Model of the presentation-generation service: the generation           *)
(* orchestrator (gamma_service.create_presentation_from_text), the        *)
(* in-memory job registry (api.jobs_storage), the background job runner   *)
(* (api.generate_in_background) and the request handlers of api.py.       *)
(*                                                                         *)
(* Python values are modelled uniformly: a str is a sequence of tokens    *)
(* (a token is a TLA+ string; identifiers are spelled one character per   *)
(* token so that str.split can be computed), None is the reserved         *)
(* sequence None, a dict is a record whose DOMAIN is its key set.         *)
(***************************************************************************)
EXTENDS Integers, Sequences, FiniteSets, TLC

\* ------------------------------------------------------------------ bounds

\* number of job identifiers uuid4 may mint in one run of the process
MaxJobs == 1
\* number of jobs that run side by side in SpecConcurrent
MaxConcurrent == 2

\* ------------------------------------------------------- program constants

\* gamma_service.py: for _ in range(15)
MaxAttempts == 15
\* gamma_service.py: if resp.status_code >= 400
ErrorStatus == 400
\* gamma.py: if response.status_code < 400
ClientErrorStatus == 400

\* ------------------------------------------------------------ value domain

None == <<"<None>">>

JobIds == 1..MaxJobs
\* the caller of one orchestrator run: a job's runner, or the synchronous handler
SyncCaller == 0
\* the job identifiers of SpecConcurrent
ConcurrentIds == 1..MaxConcurrent
Callers == {SyncCaller} \cup JobIds \cup ConcurrentIds

\* PresentationRequest.export_as, pattern ^(pdf|pptx)$
Pdf == <<"p", "d", "f">>
Pptx == <<"p", "p", "t", "x">>
ExportFormats == {Pdf, Pptx}

\* generation identifiers the provider may assign to the run of caller c: an
\* identifier names one generation, so runs of different callers are never given
\* the same one. Only the synchronous handler takes an identifier apart (line 132
\* of api.py), the runner passes it on whole: identifiers with a dot in them are
\* drawn for the synchronous handler's runs.
GenIdsOf(c) ==
    {<<"a", ToString(c)>>}
    \cup (IF c = SyncCaller THEN {<<"a", ".", "b", ToString(c)>>} ELSE {})
GenIds == UNION {GenIdsOf(c) : c \in Callers}
\* export locators the provider may report
ExportUrls == {<<"https://provider/export/x">>}
\* artifact bytes, as a sequence of chunks
Contents == {<<"%PDF", "%%EOF">>}
\* response text of an error response
ProviderTexts == {<<"quota exceeded">>}

\* str(e) of the faults the orchestration path can raise
ConnectionErrorMsg == <<"Connection aborted.">>
JSONDecodeErrorMsg == <<"Expecting value: line 1 column 1 (char 0)">>
AttributeErrorMsg == <<"'list' object has no attribute 'get'">>
MissingSchemaMsg == <<"Invalid URL 'None': No scheme supplied.">>
PermissionErrorMsg == <<"[Errno 13] Permission denied">>
NoSpaceErrorMsg == <<"[Errno 28] No space left on device">>

\* ------------------------------------------------------------ the provider

\* What response.json() yields: raises (invalid), a non-object (array), or an
\* object, of which the keys the code reads are kept (None: key absent or null).
Json(kind, generationId, status, exportUrl) ==
    [kind |-> kind, generationId |-> generationId, status |-> status,
     exportUrl |-> exportUrl]

NoJson == Json("invalid", None, None, None)

\* One HTTP exchange: exc # None when requests raises instead of returning.
Http(exc, status_code, text, json) ==
    [exc |-> exc, status_code |-> status_code, text |-> text, json |-> json]

NoHttp == Http(None, 0, None, NoJson)

\* answers to the POST /generations of caller c
PostAnswers(c) ==
    {Http(ConnectionErrorMsg, 0, None, NoJson)}
    \cup {Http(None, 400, t, NoJson) : t \in ProviderTexts}
    \cup {Http(None, 500, t, Json("object", <<"a", ToString(c)>>, None, None)) :
            t \in ProviderTexts}
    \cup {Http(None, sc, None, Json("object", g, None, None)) :
            sc \in {200}, g \in GenIdsOf(c) \cup {None, <<>>}}
    \cup {Http(None, 200, None, Json(k, None, None, None)) : k \in {"invalid", "array"}}

\* status strings of a status snapshot
PollStatuses == {<<"completed">>, <<"failed">>, <<"pending">>, None}

\* answers to GET /generations/{id}
GetAnswers ==
    {Http(ConnectionErrorMsg, 0, None, NoJson)}
    \cup {Http(None, 200, None, Json("object", None, s, None)) : s \in PollStatuses}
    \cup {Http(None, 200, None, Json("object", None, <<"completed">>, u)) : u \in ExportUrls}
    \cup {Http(None, 200, None, Json(k, None, None, None)) : k \in {"invalid", "array"}}

\* answers to GET export_url: a fault, or the artifact bytes
FetchAnswers ==
    {[exc |-> ConnectionErrorMsg, content |-> <<>>]}
    \cup {[exc |-> None, content |-> c] : c \in Contents}

\* ---------------------------------------------------------------- state

VARIABLES
    jobs_storage,   \* api.jobs_storage: job id -> job record (a dict)
    files,          \* local storage: file name -> bytes written so far
    pc,             \* per caller: where its handler / runner / orchestrator run is
    export_as,      \* per caller: the request's export format
    resp,           \* per run: local resp, the answer to the POST, until the poll
                    \*   loop is left
    generation_id,  \* per run: local generation_id
    attempts,       \* per run: iterations of the poll loop entered (GETs sent);
                    \*   the loop's iterator, gone when the loop is left
    status,         \* per run: local status, of the latest snapshot
    export_url,     \* per run: local export_url
    file_data,      \* per run: local file_data
    result,         \* per run: the dict the orchestrator returned
    raised,         \* per run: str(e) of the fault the orchestrator raised
    sync_response,  \* what generate_presentation answered
    cpc,            \* status-check request: where check_job_status is
    cjob,           \* status-check request: the job_id asked for
    job_status,     \* status-check request: the answer, as built so far
    cstart,         \* status-check request: the terminal answer already given for
                    \*   cjob when the request arrived (history)
    observed,       \* per job id: first terminal answer a status-check gave (history)
    redelivered,    \* per job id: generate_in_background was called a second time
                    \*   for it (history)
    dpc,            \* download request: where download_file is
    file_name,      \* download request: the file_name asked for
    download_response,  \* download request: the answer
    touched,        \* download request: the names it handed to the file system (history)
    client_pc,      \* gamma.create_presentation: where the call is
    endpoint,       \* gamma.create_presentation: index of the loop over GAMMA_ENDPOINTS
    last_error,     \* gamma.create_presentation: local last_error
    contacted,      \* gamma.create_presentation: the answers to its POSTs, in order (history)
    client_result   \* gamma.create_presentation: what it returned

orch_vars == <<pc, export_as, resp, generation_id, attempts, status, export_url,
               file_data, result, raised>>
check_vars == <<cpc, cjob, job_status, cstart, observed>>
down_vars == <<dpc, file_name, download_response, touched>>
client_vars == <<client_pc, endpoint, last_error, contacted, client_result>>
aux_vars == <<down_vars, client_vars>>
vars == <<jobs_storage, files, orch_vars, sync_response, check_vars, redelivered, aux_vars>>

\* ------------------------------------------------- generation orchestrator

NoResult == [none |-> TRUE]

\* Python truthiness of a str-or-None
Falsy(v) == v = None \/ v = <<>>

\* f"{generation_id}.{export_as}"
FileName(gid, fmt) == gid \o <<".">> \o fmt

\* where a run stands after one step: the next position, and what it returned or raised
Goes(to) == [pc |-> to, result |-> NoResult, raised |-> None]
Returns(d) == [pc |-> "return", result |-> d, raised |-> None]
Raises(msg) == [pc |-> "return", result |-> NoResult, raised |-> msg]

\* the status test off by one
SubmitRejectedAbove(r) == r.status_code > ErrorStatus

\* resp.status_code >= 400
SubmitRejected(r) == r.status_code >= ErrorStatus

\* lines 23-40: POST, check the status code, read generationId
AfterPost(r) ==
    IF r.exc # None THEN Raises(r.exc)
    ELSE IF SubmitRejected(r)
        THEN Returns([error |-> <<"Failed to start generation: ">> \o r.text])
    ELSE IF r.json.kind = "invalid" THEN Raises(JSONDecodeErrorMsg)
    ELSE IF r.json.kind = "array" THEN Raises(AttributeErrorMsg)
    ELSE IF Falsy(r.json.generationId)
        THEN Returns([error |-> <<"Missing generationId in response.">>])
    ELSE Goes("poll")

\* the poll loop without its test for failed: it polls on until the provider
\* reports completed or the attempts run out
AfterPollIgnoringFailed(r, n) ==
    IF r.exc # None THEN Raises(r.exc)
    ELSE IF r.json.kind = "invalid" THEN Raises(JSONDecodeErrorMsg)
    ELSE IF r.json.kind = "array" THEN Raises(AttributeErrorMsg)
    ELSE IF r.json.status = <<"completed">> THEN Goes("fetch")
    ELSE IF n < MaxAttempts THEN Goes("poll")
    ELSE Returns([error |-> <<"Gamma generation timed out.">>])

\* the poll loop going on to the export whatever terminal status it saw
AfterPollFetchingFailed(r, n) ==
    IF r.exc # None THEN Raises(r.exc)
    ELSE IF r.json.kind = "invalid" THEN Raises(JSONDecodeErrorMsg)
    ELSE IF r.json.kind = "array" THEN Raises(AttributeErrorMsg)
    ELSE IF r.json.status \in {<<"completed">>, <<"failed">>} THEN Goes("fetch")
    ELSE IF n < MaxAttempts THEN Goes("poll")
    ELSE Returns([error |-> <<"Gamma generation timed out.">>])

\* the poll loop reporting its exhaustion as the provider's failure
AfterPollConflating(r, n) ==
    IF r.exc # None THEN Raises(r.exc)
    ELSE IF r.json.kind = "invalid" THEN Raises(JSONDecodeErrorMsg)
    ELSE IF r.json.kind = "array" THEN Raises(AttributeErrorMsg)
    ELSE IF r.json.status = <<"completed">> THEN Goes("fetch")
    ELSE IF r.json.status = <<"failed">> \/ n >= MaxAttempts
        THEN Returns([error |-> <<"Gamma generation failed.">>])
    ELSE Goes("poll")

\* lines 43-58: one iteration of the poll loop, n the number of this iteration
AfterPoll(r, n) ==
    IF r.exc # None THEN Raises(r.exc)
    ELSE IF r.json.kind = "invalid" THEN Raises(JSONDecodeErrorMsg)
    ELSE IF r.json.kind = "array" THEN Raises(AttributeErrorMsg)
    ELSE IF r.json.status = <<"completed">> THEN Goes("fetch")
    ELSE IF r.json.status = <<"failed">>
        THEN Returns([error |-> <<"Gamma generation failed.">>])
    ELSE IF n < MaxAttempts THEN Goes("poll")
    ELSE Returns([error |-> <<"Gamma generation timed out.">>])

Step(c, to) ==
    /\ pc' = [pc EXCEPT ![c] = to.pc]
    /\ result' = [result EXCEPT ![c] = to.result]
    /\ raised' = [raised EXCEPT ![c] = to.raised]

\* the value a local holds after a step to position at: locals are gone once the
\* function has returned or raised
Local(at, value) == IF at = "return" THEN None ELSE value

\* resp = requests.post(...); generation_id = resp.json().get("generationId")
Submit(c) ==
    /\ pc[c] = "submit"
    /\ \E r \in PostAnswers(c) :
        /\ resp' = [resp EXCEPT ![c] = r]
        /\ Step(c, AfterPost(r))
        /\ generation_id' = [generation_id EXCEPT ![c] =
                Local(AfterPost(r).pc, r.json.generationId)]
    /\ UNCHANGED <<jobs_storage, files, export_as, attempts, status, export_url,
                   file_data, sync_response, check_vars, redelivered,
                   aux_vars>>

\* time.sleep(5); res = requests.get(...); data = res.json(); status = data.get("status")
Poll(c) ==
    /\ pc[c] = "poll"
    /\ attempts[c] < MaxAttempts
    /\ \E r \in GetAnswers :
        LET to == AfterPoll(r, attempts[c] + 1)
            decoded == r.exc = None /\ r.json.kind = "object"
        IN  /\ Step(c, to)
            /\ attempts' = [attempts EXCEPT ![c] = IF to.pc = "poll" THEN @ + 1 ELSE 0]
            /\ status' = [status EXCEPT ![c] = IF decoded THEN r.json.status ELSE None]
            /\ export_url' = [export_url EXCEPT ![c] =
                    IF to.pc = "fetch" THEN r.json.exportUrl ELSE None]
            /\ generation_id' = [generation_id EXCEPT ![c] = Local(to.pc, @)]
            /\ resp' = [resp EXCEPT ![c] = IF to.pc = "poll" THEN @ ELSE NoHttp]
    /\ UNCHANGED <<jobs_storage, files, export_as, file_data, sync_response, check_vars, redelivered,
                   aux_vars>>

\* file_data = requests.get(export_url).content
Fetch(c) ==
    /\ pc[c] = "fetch"
    /\ \E a \in FetchAnswers :
        LET to == IF export_url[c] = None THEN Raises(MissingSchemaMsg)
                  ELSE IF a.exc # None THEN Raises(a.exc)
                  ELSE Goes("open")
        IN  /\ Step(c, to)
            /\ file_data' = [file_data EXCEPT ![c] = IF to.pc = "open" THEN a.content ELSE <<>>]
            /\ generation_id' = [generation_id EXCEPT ![c] = Local(to.pc, @)]
            /\ export_url' = [export_url EXCEPT ![c] = Local(to.pc, @)]
    /\ UNCHANGED <<jobs_storage, files, export_as, resp, attempts, status,
                   sync_response, check_vars, redelivered,
                   aux_vars>>

\* files with name bound to bytes (created when absent)
WithFile(fs, name, bytes) ==
    [n \in DOMAIN fs \cup {name} |-> IF n = name THEN bytes ELSE fs[n]]

\* open(file_name, "wb"): creates or truncates the file, or raises
Open(c) ==
    /\ pc[c] = "open"
    /\ \E ok \in BOOLEAN :
        IF ok
        THEN /\ files' = WithFile(files, FileName(generation_id[c], export_as[c]), <<>>)
             /\ Step(c, Goes("write"))
        ELSE /\ files' = files
             /\ Step(c, Raises(PermissionErrorMsg))
    /\ generation_id' = [generation_id EXCEPT ![c] = Local(pc'[c], @)]
    /\ export_url' = [export_url EXCEPT ![c] = Local(pc'[c], @)]
    /\ file_data' = [file_data EXCEPT ![c] = IF pc'[c] = "return" THEN <<>> ELSE @]
    /\ UNCHANGED <<jobs_storage, export_as, resp, attempts, status,
                   sync_response, check_vars, redelivered,
                   aux_vars>>

\* the write with its failure swallowed: the success dict is returned all the same
WriteIgnoringFailure(c) ==
    /\ pc[c] = "write"
    /\ LET name == FileName(generation_id[c], export_as[c])
       IN \E k \in 0..Len(file_data[c]) :
            /\ files' = WithFile(files, name, SubSeq(file_data[c], 1, k))
            /\ Step(c, Returns([status |-> <<"completed">>, file |-> name,
                                url |-> export_url[c]]))
    /\ generation_id' = [generation_id EXCEPT ![c] = None]
    /\ export_url' = [export_url EXCEPT ![c] = None]
    /\ file_data' = [file_data EXCEPT ![c] = <<>>]
    /\ UNCHANGED <<jobs_storage, export_as, resp, attempts, status,
                   sync_response, check_vars, redelivered, aux_vars>>

\* f.write(file_data) and the return of line 54; a failing write leaves a prefix
Write(c) ==
    /\ pc[c] = "write"
    /\ LET name == FileName(generation_id[c], export_as[c])
       IN \E k \in 0..Len(file_data[c]) :
            IF k = Len(file_data[c])
            THEN /\ files' = WithFile(files, name, file_data[c])
                 /\ Step(c, Returns([status |-> <<"completed">>, file |-> name,
                                     url |-> export_url[c]]))
            ELSE /\ files' = WithFile(files, name, SubSeq(file_data[c], 1, k))
                 /\ Step(c, Raises(NoSpaceErrorMsg))
    /\ generation_id' = [generation_id EXCEPT ![c] = None]
    /\ export_url' = [export_url EXCEPT ![c] = None]
    /\ file_data' = [file_data EXCEPT ![c] = <<>>]
    /\ UNCHANGED <<jobs_storage, export_as, resp, attempts, status,
                   sync_response, check_vars, redelivered,
                   aux_vars>>

create_presentation_from_text(c) ==
    Submit(c) \/ Poll(c) \/ Fetch(c) \/ Open(c) \/ Write(c)

\* the locals of a run that has not started
InitRun ==
    /\ resp = [c \in Callers |-> NoHttp]
    /\ generation_id = [c \in Callers |-> None]
    /\ attempts = [c \in Callers |-> 0]
    /\ status = [c \in Callers |-> None]
    /\ export_url = [c \in Callers |-> None]
    /\ file_data = [c \in Callers |-> <<>>]
    /\ result = [c \in Callers |-> NoResult]
    /\ raised = [c \in Callers |-> None]

\* the frame of a finished run is dropped
DropRun(c) ==
    /\ resp' = [resp EXCEPT ![c] = NoHttp]
    /\ generation_id' = [generation_id EXCEPT ![c] = None]
    /\ attempts' = [attempts EXCEPT ![c] = 0]
    /\ status' = [status EXCEPT ![c] = None]
    /\ export_url' = [export_url EXCEPT ![c] = None]
    /\ file_data' = [file_data EXCEPT ![c] = <<>>]
    /\ result' = [result EXCEPT ![c] = NoResult]
    /\ raised' = [raised EXCEPT ![c] = None]
    /\ export_as' = [export_as EXCEPT ![c] = Pdf]

\* ------------------------------------------------------------ job registry

\* datetime.now().isoformat(): all the code does with a timestamp is store it in
\* a job record and hand it back, so a timestamp is kept as the number of the clock
\* reading that produced it, counted per record (a later reading is a later time).
FirstReading == 1
Reading(job) == job.updated_at + 1

\* the initial record with the runner's in-flight progress already in it
NewJobHalfway ==
    [status |-> "processing", progress |-> 50, download_url |-> None, error |-> None,
     created_at |-> FirstReading, updated_at |-> FirstReading + 1,
     file_name |-> None, gamma_url |-> None]

\* the dict stored at lines 229-236 (file_name, gamma_url: keys not yet set)
NewJob ==
    [status |-> "processing", progress |-> 0, download_url |-> None, error |-> None,
     created_at |-> FirstReading, updated_at |-> FirstReading + 1,
     file_name |-> None, gamma_url |-> None]

\* jobs_storage[job_id] = value
Stored(store, job_id, value) ==
    [j \in DOMAIN store \cup {job_id} |-> IF j = job_id THEN value ELSE store[j]]

\* f"/api/downloads/{file_name}"
DownloadUrl(name) == <<"/api/downloads/">> \o name

\* line 269: ["updated_at"] = datetime.now().isoformat()
Stamped(job) == [job EXCEPT !.updated_at = Reading(job)]

\* line 268: ["progress"] = 10
Started(job) == [job EXCEPT !.progress = 10]

\* the failure update with the status key left out
FailedUpdateWithoutStatus(job, msg) ==
    [job EXCEPT !.error = msg, !.updated_at = Reading(job)]

\* lines 280-284 and 301-305: .update({"status": "failed", "error": ..., "updated_at": ...})
FailedUpdate(job, msg) ==
    [job EXCEPT !.status = "failed", !.error = msg, !.updated_at = Reading(job)]

\* the success update with the progress key left out
CompletedUpdateWithoutProgress(job, res) ==
    [job EXCEPT !.status = "completed",
                !.download_url = DownloadUrl(res.file), !.file_name = res.file,
                !.gamma_url = res.url, !.updated_at = Reading(job)]

\* the success update with the status key left out
CompletedUpdateWithoutStatus(job, res) ==
    [job EXCEPT !.progress = 100,
                !.download_url = DownloadUrl(res.file), !.file_name = res.file,
                !.gamma_url = res.url, !.updated_at = Reading(job)]

\* lines 288-298: .update({"status": "completed", "progress": 100, ...})
CompletedUpdate(job, res) ==
    [job EXCEPT !.status = "completed", !.progress = 100,
                !.download_url = DownloadUrl(res.file), !.file_name = res.file,
                !.gamma_url = res.url, !.updated_at = Reading(job)]

\* lines 278-305: what the runner makes of the orchestrator's outcome
Reconciled(job, res, exc) ==
    IF exc # None THEN FailedUpdate(job, exc)
    ELSE IF "error" \in DOMAIN res THEN FailedUpdate(job, res.error)
    ELSE CompletedUpdate(job, res)

Terminal(st) == st \in {"completed", "failed"}

\* ------------------------------------------ asynchronous start and job runner

\* lines 226-236: job_id = str(uuid.uuid4()); jobs_storage[job_id] = {...}
AsyncStore(j) ==
    /\ pc[j] = "idle"
    /\ \E fmt \in ExportFormats : export_as' = [export_as EXCEPT ![j] = fmt]
    /\ jobs_storage' = Stored(jobs_storage, j, NewJob)
    /\ pc' = [pc EXCEPT ![j] = "registered"]
    /\ UNCHANGED <<files, resp, generation_id, attempts, status, export_url,
                   file_data, result, raised, sync_response, check_vars, redelivered,
                   aux_vars>>

\* lines 239-253: add_task(...) and the JobResponse; the task runs once the
\* response has been sent
AsyncRespond(j) ==
    /\ pc[j] = "registered"
    /\ pc' = [pc EXCEPT ![j] = "scheduled"]
    /\ UNCHANGED <<jobs_storage, files, export_as, resp, generation_id, attempts,
                   status, export_url, file_data, result, raised, sync_response,
                   check_vars, redelivered,
                   aux_vars>>

generate_presentation_async(j) == AsyncStore(j) \/ AsyncRespond(j)

\* line 268: jobs_storage[job_id]["progress"] = 10
RunnerProgress(j) ==
    /\ pc[j] = "scheduled"
    /\ jobs_storage' = [jobs_storage EXCEPT ![j] = Started(@)]
    /\ pc' = [pc EXCEPT ![j] = "stamp"]
    /\ UNCHANGED <<files, export_as, resp, generation_id, attempts, status,
                   export_url, file_data, result, raised, sync_response, check_vars, redelivered,
                   aux_vars>>

\* line 269: jobs_storage[job_id]["updated_at"] = datetime.now().isoformat()
RunnerStamp(j) ==
    /\ pc[j] = "stamp"
    /\ jobs_storage' = [jobs_storage EXCEPT ![j] = Stamped(@)]
    /\ pc' = [pc EXCEPT ![j] = "submit"]
    /\ UNCHANGED <<files, export_as, resp, generation_id, attempts, status,
                   export_url, file_data, result, raised, sync_response, check_vars, redelivered,
                   aux_vars>>

\* the outcome written key by key, the status first, instead of by one update
RunnerFinishPiecemeal(j) ==
    /\ pc[j] = "return"
    /\ LET new == Reconciled(jobs_storage[j], result[j], raised[j])
       IN IF jobs_storage[j].status # new.status
          THEN /\ jobs_storage' = [jobs_storage EXCEPT ![j].status = new.status]
               /\ UNCHANGED orch_vars
          ELSE /\ jobs_storage' = [jobs_storage EXCEPT ![j] = new]
               /\ pc' = [pc EXCEPT ![j] = "done"]
               /\ DropRun(j)
    /\ UNCHANGED <<files, sync_response, check_vars, redelivered,
                   aux_vars>>

\* the runner without its except clause: a fault leaves the task
RunnerFinishUncaught(j) ==
    /\ pc[j] = "return"
    /\ IF raised[j] # None
       THEN /\ pc' = [pc EXCEPT ![j] = "crashed"]
            /\ jobs_storage' = jobs_storage
       ELSE /\ pc' = [pc EXCEPT ![j] = "done"]
            /\ jobs_storage' = [jobs_storage EXCEPT
                    ![j] = Reconciled(@, result[j], raised[j])]
    /\ DropRun(j)
    /\ UNCHANGED <<files, sync_response, check_vars, redelivered,
                   aux_vars>>

\* the outcome written to every record of the registry instead of the job's own
RunnerFinishEveryRecord(j) ==
    /\ pc[j] = "return"
    /\ jobs_storage' = [k \in DOMAIN jobs_storage |->
            Reconciled(jobs_storage[k], result[j], raised[j])]
    /\ pc' = [pc EXCEPT ![j] = "done"]
    /\ DropRun(j)
    /\ UNCHANGED <<files, sync_response, check_vars, redelivered, aux_vars>>

\* lines 278-305: the update for the outcome, in the try or in the except clause
RunnerFinish(j) ==
    /\ pc[j] = "return"
    /\ jobs_storage' = [jobs_storage EXCEPT
            ![j] = Reconciled(@, result[j], raised[j])]
    /\ pc' = [pc EXCEPT ![j] = "done"]
    /\ DropRun(j)
    /\ UNCHANGED <<files, sync_response, check_vars, redelivered,
                   aux_vars>>

\* The scheduler hands the same job to generate_in_background again after the
\* first call returned (a duplicate delivery of the task): not something
\* BackgroundTasks does, so this is an action of SpecRedelivery only.
Redeliver(j) ==
    /\ pc[j] = "done"
    /\ ~redelivered[j]
    /\ redelivered' = [redelivered EXCEPT ![j] = TRUE]
    /\ \E fmt \in ExportFormats : export_as' = [export_as EXCEPT ![j] = fmt]
    /\ pc' = [pc EXCEPT ![j] = "scheduled"]
    /\ UNCHANGED <<jobs_storage, files, resp, generation_id, attempts, status, export_url,
                   file_data, result, raised, sync_response, check_vars,
                   aux_vars>>

\* lines 226-245 when uuid.uuid4() returns an identifier that is already a key of
\* jobs_storage: the assignment of line 229 replaces the record, whatever it held,
\* and a task is scheduled for the identifier again. (Taken here once the first
\* task is over; the clock has moved on since the old record was stamped.)
AsyncStoreAgain(j) ==
    /\ pc[j] = "done"
    /\ ~redelivered[j]
    /\ redelivered' = [redelivered EXCEPT ![j] = TRUE]
    /\ \E fmt \in ExportFormats : export_as' = [export_as EXCEPT ![j] = fmt]
    /\ jobs_storage' = Stored(jobs_storage, j,
            [NewJob EXCEPT !.created_at = Reading(jobs_storage[j]),
                           !.updated_at = Reading(jobs_storage[j]) + 1])
    /\ pc' = [pc EXCEPT ![j] = "registered"]
    /\ UNCHANGED <<files, resp, generation_id, attempts, status, export_url,
                   file_data, result, raised, sync_response, check_vars,
                   aux_vars>>

generate_in_background(j) ==
    \/ RunnerProgress(j)
    \/ RunnerStamp(j)
    \/ create_presentation_from_text(j)
    \/ RunnerFinish(j)

\* ------------------------------------------------------------ status check

\* the JobStatusResponse under construction (keyword arguments not yet evaluated
\* hold the placeholders), or the 404 of line 321
NoAnswer ==
    [code |-> 0, status |-> "", progress |-> -1, download_url |-> None,
     error |-> None, created_at |-> -1, updated_at |-> -1]
NotFound == [NoAnswer EXCEPT !.code = 404]

\* the fields of an answer other than its timestamps
Body(a) ==
    [code |-> a.code, status |-> a.status, progress |-> a.progress,
     download_url |-> a.download_url, error |-> a.error]

\* the keyword arguments of JobStatusResponse, in evaluation order
ReadOrder == <<"status", "progress", "download_url", "error", "created_at", "updated_at">>

\* the lookup done with setdefault: an unknown id gets a fresh processing record
CheckBeginWithDefault(j) ==
    /\ cpc = 0
    /\ cjob' = j
    /\ cstart' = observed[j]
    /\ jobs_storage' = IF j \in DOMAIN jobs_storage THEN jobs_storage
                       ELSE Stored(jobs_storage, j, NewJob)
    /\ cpc' = 1
    /\ job_status' = [NoAnswer EXCEPT !.code = 200]
    /\ UNCHANGED <<files, orch_vars, sync_response, observed, redelivered,
                   aux_vars>>

\* lines 320-327: the membership test, then job_data = jobs_storage[job_id]
CheckBegin(j) ==
    /\ cpc = 0
    /\ cjob' = j
    /\ cstart' = observed[j]
    /\ IF j \in DOMAIN jobs_storage
       THEN /\ cpc' = 1
            /\ job_status' = [NoAnswer EXCEPT !.code = 200]
       ELSE /\ cpc' = Len(ReadOrder) + 1
            /\ job_status' = NotFound
    /\ UNCHANGED <<jobs_storage, files, orch_vars, sync_response, observed, redelivered,
                   aux_vars>>

\* lines 329-337: one keyword argument read from job_data; the response is
\* returned with the last one
CheckRead ==
    /\ cpc \in 1..Len(ReadOrder)
    /\ LET key == ReadOrder[cpc]
           answer == [job_status EXCEPT ![key] = jobs_storage[cjob][key]]
       IN /\ job_status' = answer
          /\ observed' =
                IF /\ cpc = Len(ReadOrder)
                   /\ Terminal(answer.status)
                   /\ observed[cjob] = Body(NoAnswer)
                THEN [observed EXCEPT ![cjob] = Body(answer)]
                ELSE observed
    /\ cpc' = cpc + 1
    /\ UNCHANGED <<jobs_storage, files, orch_vars, sync_response, cjob, cstart, redelivered,
                   aux_vars>>

\* the request is over; the next one may arrive
CheckEnd ==
    /\ cpc = Len(ReadOrder) + 1
    /\ cpc' = 0
    /\ cjob' = 1
    /\ job_status' = NoAnswer
    /\ cstart' = Body(NoAnswer)
    /\ UNCHANGED <<jobs_storage, files, orch_vars, sync_response, observed, redelivered,
                   aux_vars>>

check_job_status ==
    \/ \E j \in JobIds : CheckBegin(j)
    \/ CheckRead
    \/ CheckEnd

Returned == cpc = Len(ReadOrder) + 1

\* ----------------------------------------------------- synchronous handler

\* file_name.split('.')[0]
SplitFirst(s) ==
    LET dots == {i \in 1..Len(s) : s[i] = "."}
    IN  IF dots = {} THEN s
        ELSE SubSeq(s, 1, (CHOOSE i \in dots : \A m \in dots : i <= m) - 1)

NoSyncResponse ==
    [code |-> 0, success |-> FALSE, error |-> None, detail |-> None,
     generation_id |-> None, file_name |-> None, download_url |-> None,
     gamma_url |-> None, status |-> None, created_at |-> -1]

\* lines 123-154: the PresentationResponse, or the HTTPException of the except clause
SyncAnswer(res, exc) ==
    IF exc # None
    THEN [NoSyncResponse EXCEPT !.code = 500,
                                !.detail = <<"Internal server error: ">> \o exc]
    ELSE IF "error" \in DOMAIN res
    THEN [NoSyncResponse EXCEPT !.code = 200, !.error = res.error]
    ELSE [NoSyncResponse EXCEPT !.code = 200, !.success = TRUE,
                                !.generation_id = SplitFirst(res.file),
                                !.file_name = res.file,
                                !.download_url = DownloadUrl(res.file),
                                !.gamma_url = res.url,
                                !.status = <<"completed">>,
                                !.created_at = FirstReading]

\* lines 105-121: a validated request arrives and the orchestrator is called
SyncCall ==
    /\ pc[SyncCaller] \in {"idle", "done"}
    /\ \E fmt \in ExportFormats : export_as' = [export_as EXCEPT ![SyncCaller] = fmt]
    /\ pc' = [pc EXCEPT ![SyncCaller] = "submit"]
    /\ sync_response' = NoSyncResponse
    /\ UNCHANGED <<jobs_storage, files, resp, generation_id, attempts, status,
                   export_url, file_data, result, raised, check_vars, redelivered,
                   aux_vars>>

SyncRespond ==
    /\ pc[SyncCaller] = "return"
    /\ sync_response' = SyncAnswer(result[SyncCaller], raised[SyncCaller])
    /\ pc' = [pc EXCEPT ![SyncCaller] = "done"]
    /\ DropRun(SyncCaller)
    /\ UNCHANGED <<jobs_storage, files, check_vars, redelivered,
                   aux_vars>>

generate_presentation ==
    SyncCall \/ create_presentation_from_text(SyncCaller) \/ SyncRespond

\* ------------------------------------------------------------- download

\* the characters of the class [a-zA-Z0-9_-]
NameChars ==
    {"a", "b", "c", "d", "e", "f", "g", "h", "i", "j", "k", "l", "m",
     "n", "o", "p", "q", "r", "s", "t", "u", "v", "w", "x", "y", "z",
     "A", "B", "C", "D", "E", "F", "G", "H", "I", "J", "K", "L", "M",
     "N", "O", "P", "Q", "R", "S", "T", "U", "V", "W", "X", "Y", "Z",
     "0", "1", "2", "3", "4", "5", "6", "7", "8", "9", "_", "-"}

\* the positions where $ matches (no re.MULTILINE): at the end of the string, and
\* just before a newline that is its last character
DollarEnds(s) ==
    {Len(s)} \cup (IF Len(s) > 0 /\ s[Len(s)] = "\n" THEN {Len(s) - 1} ELSE {})

\* re.match(r'^[a-zA-Z0-9_-]+\.(pdf|pptx)$', s): s[1..d-1] is the name, s[d] the dot
Matches(s) ==
    \E e \in DollarEnds(s), d \in 1..Len(s) :
        /\ d > 1
        /\ \A i \in 1..(d - 1) : s[i] \in NameChars
        /\ s[d] = "."
        /\ d < e
        /\ SubSeq(s, d + 1, e) \in {Pdf, Pptx}

\* file_name.endswith('.pdf')
EndsWithPdf(s) ==
    Len(s) >= 4 /\ SubSeq(s, Len(s) - 3, Len(s)) = <<".">> \o Pdf

PdfType == <<"application/pdf">>
PptxType == <<"application/vnd.openxmlformats-officedocument.presentationml.presentation">>

\* what download_file answers: an HTTPException, or the FileResponse
NoDownload == [code |-> 0, detail |-> None, path |-> None, media_type |-> None]
InvalidName == [NoDownload EXCEPT !.code = 400, !.detail = <<"Invalid file name format">>]
FileNotFound == [NoDownload EXCEPT !.code = 404, !.detail = <<"File not found">>]

\* the file names a client may ask for
Stems ==
    GenIdsOf(SyncCaller) \cup
    {<<>>, <<"a">>, <<"r", "_", "-", "9">>, <<"a", ".", "b">>, <<".", ".">>,
     <<".", ".", "/", "a">>, <<"a", "/", "a">>, <<"a", "\\", "a">>}
Extensions ==
    {<<>>, <<".">> \o Pdf, <<".">> \o Pptx, <<".", "d", "o", "c", "x">>,
     <<".", "P", "D", "F">>, Pdf, <<".">> \o Pdf \o <<".">>}
Tails == {<<>>, <<"\n">>, <<"\n", "\n">>, <<"/">>, <<"x">>}
RequestedNames == {st \o ex \o tl : st \in Stems, ex \in Extensions, tl \in Tails}

\* lines 170-174: the validation
DownloadValidate(name) ==
    /\ dpc = "idle"
    /\ file_name' = name
    /\ touched' = {}
    /\ IF Matches(name)
       THEN /\ dpc' = "exists"
            /\ download_response' = NoDownload
       ELSE /\ dpc' = "done"
            /\ download_response' = InvalidName
    /\ UNCHANGED <<jobs_storage, files, orch_vars, sync_response, check_vars,
                   redelivered, client_vars>>

\* lines 177-181: os.path.exists(file_name)
DownloadExists ==
    /\ dpc = "exists"
    /\ touched' = touched \cup {file_name}
    /\ IF file_name \in DOMAIN files
       THEN /\ dpc' = "respond"
            /\ download_response' = download_response
       ELSE /\ dpc' = "done"
            /\ download_response' = FileNotFound
    /\ UNCHANGED <<jobs_storage, files, orch_vars, sync_response, check_vars,
                   redelivered, file_name, client_vars>>

\* lines 184-197: the media type and the FileResponse
DownloadRespond ==
    /\ dpc = "respond"
    /\ touched' = touched \cup {file_name}
    /\ download_response' =
            [NoDownload EXCEPT !.code = 200, !.path = file_name,
                !.media_type = IF EndsWithPdf(file_name) THEN PdfType ELSE PptxType]
    /\ dpc' = "done"
    /\ UNCHANGED <<jobs_storage, files, orch_vars, sync_response, check_vars,
                   redelivered, file_name, client_vars>>

\* the request is over; the next one may arrive
DownloadEnd ==
    /\ dpc = "done"
    /\ dpc' = "idle"
    /\ file_name' = None
    /\ download_response' = NoDownload
    /\ touched' = {}
    /\ UNCHANGED <<jobs_storage, files, orch_vars, sync_response, check_vars,
                   redelivered, client_vars>>

download_file ==
    \/ \E name \in RequestedNames : DownloadValidate(name)
    \/ DownloadExists
    \/ DownloadRespond
    \/ DownloadEnd

InitDownload ==
    /\ dpc = "idle"
    /\ file_name = None
    /\ download_response = NoDownload
    /\ touched = {}

\* --------------------------------------------------------- provider client

\* gamma.py: the candidate paths, in the order of the list
GAMMA_ENDPOINTS == <<"/content", "/documents", "/create">>

ConnectErrorMsg == <<"All connection attempts failed">>
Hint == <<"Try verifying which endpoint your Gamma key supports. ",
          "Most users should use POST https://gamma.app/api/content.">>

\* answers to client.post(url, ...): httpx raises, or a response; a body that is
\* a JSON object carries the identifier of the document
ClientAnswers ==
    {Http(ConnectErrorMsg, 0, None, NoJson)}
    \cup {Http(None, sc, None, Json("object", <<"d">>, None, None)) : sc \in {200, 399}}
    \cup {Http(None, 200, None, NoJson)}
    \cup {Http(None, 400, t, Json("object", None, None, None)) : t \in ProviderTexts}
    \cup {Http(None, sc, t, NoJson) : sc \in {404, 500}, t \in ProviderTexts}

\* the test off by one
AcceptedUpTo(r) == r.status_code <= ClientErrorStatus

\* response.status_code < 400
Accepted(r) == r.status_code < ClientErrorStatus

\* f"{response.status_code} - {response.text}"
StatusText(r) == <<ToString(r.status_code), " - ">> \o r.text

AllFailed(err) ==
    [error |-> <<"All endpoints failed">>, last_attempt |-> err, hint |-> Hint]

\* lines 37-43: one candidate; what is returned (NoResult: nothing) and the error noted
AfterClientPost(r) ==
    IF r.exc # None THEN [returned |-> NoResult, error |-> r.exc]
    ELSE IF Accepted(r)
        THEN IF r.json.kind = "invalid"
             THEN [returned |-> NoResult, error |-> JSONDecodeErrorMsg]
             ELSE [returned |-> r.json, error |-> None]
    ELSE [returned |-> NoResult, error |-> StatusText(r)]

\* lines 28-34: the call; last_error = None
ClientCall ==
    /\ client_pc = "idle"
    /\ client_pc' = "try"
    /\ endpoint' = 1
    /\ last_error' = None
    /\ contacted' = <<>>
    /\ client_result' = NoResult
    /\ UNCHANGED <<jobs_storage, files, orch_vars, sync_response, check_vars,
                   redelivered, down_vars>>

\* lines 35-52: one iteration of the loop over GAMMA_ENDPOINTS, and, after the
\* last one, the return of the failure dict
ClientPost ==
    /\ client_pc = "try"
    /\ \E r \in ClientAnswers :
        LET out == AfterClientPost(r)
            last == endpoint = Len(GAMMA_ENDPOINTS)
        IN  /\ contacted' = Append(contacted, [url |-> GAMMA_ENDPOINTS[endpoint], answer |-> r])
            /\ IF out.returned # NoResult
               THEN /\ client_result' = out.returned
                    /\ client_pc' = "done"
                    /\ endpoint' = 1
                    /\ last_error' = None
               ELSE IF last
               THEN /\ client_result' = AllFailed(out.error)
                    /\ client_pc' = "done"
                    /\ endpoint' = 1
                    /\ last_error' = None
               ELSE /\ client_result' = client_result
                    /\ client_pc' = "try"
                    /\ endpoint' = endpoint + 1
                    /\ last_error' = out.error
    /\ UNCHANGED <<jobs_storage, files, orch_vars, sync_response, check_vars,
                   redelivered, down_vars>>

\* the caller has the result; the next call may be made
ClientEnd ==
    /\ client_pc = "done"
    /\ client_pc' = "idle"
    /\ contacted' = <<>>
    /\ client_result' = NoResult
    /\ UNCHANGED <<jobs_storage, files, orch_vars, sync_response, check_vars,
                   redelivered, down_vars, endpoint, last_error>>

create_presentation == ClientCall \/ ClientPost \/ ClientEnd

InitClient ==
    /\ client_pc = "idle"
    /\ endpoint = 1
    /\ last_error = None
    /\ contacted = <<>>
    /\ client_result = NoResult

\* ---------------------------------------------------------- specifications

\* the process has just started: everything it holds in memory
InitMemory ==
    /\ jobs_storage = [j \in {} |-> NewJob]
    /\ pc = [c \in Callers |-> "idle"]
    /\ export_as = [c \in Callers |-> Pdf]
    /\ InitRun
    /\ sync_response = NoSyncResponse
    /\ cpc = 0
    /\ cjob = 1
    /\ job_status = NoAnswer
    /\ cstart = Body(NoAnswer)
    /\ observed = [j \in JobIds |-> Body(NoAnswer)]
    /\ redelivered = [j \in JobIds |-> FALSE]
    /\ InitDownload
    /\ InitClient

Init ==
    /\ files = [n \in {} |-> <<>>]
    /\ InitMemory

\* Local storage outlives the process: a process may start in a directory that
\* holds artifacts written by earlier runs.
Storages ==
    {[n \in names |-> CHOOSE c \in Contents : TRUE] :
        names \in SUBSET {FileName(g, f) : g \in GenIdsOf(SyncCaller), f \in ExportFormats}}

InitStored ==
    /\ files \in Storages
    /\ InitMemory

\* the asynchronous service: start requests, their runners, status checks
Next ==
    \/ \E j \in JobIds : generate_presentation_async(j)
    \/ \E j \in JobIds : generate_in_background(j)
    \/ check_job_status

Spec == Init /\ [][Next]_vars

\* the asynchronous service under the scheduling the claims about progress assume:
\* a request handler runs to its response, a scheduled background task is run,
\* and every provider call returns or raises
Fairness ==
    \A j \in JobIds :
        /\ WF_vars(generate_presentation_async(j))
        /\ WF_vars(generate_in_background(j))

SpecLive == Spec /\ Fairness

\* the asynchronous service with a scheduler that may deliver a job's task twice
NextRedelivery == Next \/ \E j \in JobIds : Redeliver(j)

SpecRedelivery == Init /\ [][NextRedelivery]_vars

\* the asynchronous service when uuid4 may repeat an identifier
NextCollision == Next \/ \E j \in JobIds : AsyncStoreAgain(j)

SpecCollision == Init /\ [][NextCollision]_vars

\* the download endpoint alone, over a storage that holds some artifacts
NextDownload == download_file

SpecDownload == InitStored /\ [][NextDownload]_vars

\* the provider client of gamma.py alone
NextClient == create_presentation

SpecClient == Init /\ [][NextClient]_vars

\* the asynchronous service with MaxConcurrent jobs side by side, and the
\* status-checks of Spec
NextConcurrent ==
    \/ \E j \in ConcurrentIds : generate_presentation_async(j)
    \/ \E j \in ConcurrentIds : generate_in_background(j)
    \/ check_job_status

SpecConcurrent == Init /\ [][NextConcurrent]_vars

\* the synchronous endpoint alone
NextSync == generate_presentation

SpecSync == Init /\ [][NextSync]_vars

\* =================================================================== claims

\* the positions of a job from the JobResponse until the terminal update
InFlight == {"scheduled", "stamp", "submit", "poll", "fetch", "open", "write", "return"}

\* ----------------------------------------------------------------------- C1
\* C1: once a status-check has answered completed or failed for a job id, every
\* status-check that arrives later for that id answers the same status, progress,
\* download locator and error text (timestamps aside).
C1_TerminalAnswerRepeats ==
    (Returned /\ cstart # Body(NoAnswer)) => Body(job_status) = cstart

\* a status-check has answered for a job that an earlier one reported completed
C1_Witness ==
    /\ Returned
    /\ cstart # Body(NoAnswer)
    /\ cstart.status = "completed"
    /\ job_status.progress = 100

\* ----------------------------------------------------------------------- C2
\* C2: under SpecLive every job the start endpoint stored eventually has status
\* completed or failed, whatever the provider answers.
C2_JobsTerminate ==
    \A j \in JobIds :
        (j \in DOMAIN jobs_storage)
            ~> (j \in DOMAIN jobs_storage /\ Terminal(jobs_storage[j].status))

\* a job that ended failed because the provider stayed in progress for the whole loop
C2_Witness ==
    \E j \in DOMAIN jobs_storage :
        /\ pc[j] = "done"
        /\ jobs_storage[j].status = "failed"
        /\ jobs_storage[j].error = <<"Gamma generation timed out.">>

\* ----------------------------------------------------------------------- C3
\* C3: when the orchestration path raised a fault, the runner's next step ends the
\* task normally with the job record failed and the fault's message as its error.
C3_FaultBecomesFailedJob ==
    [][\A j \in JobIds :
        (pc[j] = "return" /\ raised[j] # None /\ pc'[j] # pc[j])
            => /\ pc'[j] = "done"
               /\ jobs_storage'[j].status = "failed"
               /\ jobs_storage'[j].error = raised[j]]_vars

\* a runner is done whose orchestrator raised on a completed snapshot without locator
C3_Witness ==
    \E j \in DOMAIN jobs_storage :
        /\ pc[j] = "done"
        /\ jobs_storage[j].status = "failed"
        /\ jobs_storage[j].error = MissingSchemaMsg

\* ----------------------------------------------------------------------- C4
\* C4: the orchestrator never raises: whatever the provider does, a run ends by
\* returning a payload. (Refuted: requests.post, requests.get, .json(), .get on a
\* non-object and open/write raise through create_presentation_from_text.)
C4_OrchestratorNeverRaises == \A c \in Callers : raised[c] = None

\* ----------------------------------------------------------------------- C5
\* C5: a run whose POST was answered with an error status, or with an object
\* lacking a generation identifier, is over at once with a failure payload: it is
\* never in the poll loop or beyond, and has sent no status GET.
C5_SubmitFailure(r) ==
    /\ r.exc = None
    /\ \/ r.status_code \in 400..599
       \/ r.status_code \in 200..399 /\ r.json.kind = "object"
            /\ r.json.generationId \in {None, <<>>}

C5_FailedSubmitEndsRun ==
    \A c \in Callers :
        C5_SubmitFailure(resp[c])
            => /\ pc[c] = "return"
               /\ raised[c] = None
               /\ "error" \in DOMAIN result[c]
               /\ attempts[c] = 0

\* a run that returned on an HTTP 500 whose body did carry a generation identifier
C5_Witness ==
    \E c \in Callers :
        /\ pc[c] = "return"
        /\ resp[c].status_code = 500
        /\ resp[c].json.generationId \in GenIds
        /\ "error" \in DOMAIN result[c]

\* ----------------------------------------------------------------------- C6
\* C6: when the 15th snapshot of a run, like the 14 before it, reports neither
\* completed nor failed, the run returns the timeout failure, which is not the
\* provider-failure payload and not a success.
C6_ExhaustionIsTimeout ==
    [][\A c \in Callers :
        (/\ pc[c] = "poll" /\ attempts[c] = MaxAttempts - 1
         /\ pc'[c] # "poll" /\ raised'[c] = None
         /\ status'[c] \notin {<<"completed">>, <<"failed">>})
            => /\ pc'[c] = "return"
               /\ result'[c] = [error |-> <<"Gamma generation timed out.">>]
               /\ result'[c].error # <<"Gamma generation failed.">>]_vars

\* a run that returned the timeout failure after a last snapshot still pending
C6_Witness ==
    \E c \in Callers :
        /\ pc[c] = "return"
        /\ status[c] = <<"pending">>
        /\ result[c] = [error |-> <<"Gamma generation timed out.">>]

\* ----------------------------------------------------------------------- C7
\* C7: in every state of every job record the download locator is present only
\* with status completed and the error text only with status failed; a processing
\* record has neither.
C7_ResultMatchesStatus ==
    \A j \in DOMAIN jobs_storage :
        LET job == jobs_storage[j]
        IN  /\ job.download_url # None => job.status = "completed"
            /\ job.error # None => job.status = "failed"
            /\ job.status = "processing" => (job.download_url = None /\ job.error = None)

\* a completed record carrying its locator
C7_Witness ==
    \E j \in DOMAIN jobs_storage :
        /\ jobs_storage[j].status = "completed"
        /\ jobs_storage[j].download_url # None
        /\ jobs_storage[j].error = None

\* ----------------------------------------------------------------------- C8
\* C8: no step changes the status of a job whose status is completed or failed.
\* (Refuted under SpecRedelivery: the runner's updates are unconditional, so a
\* second delivery of the task rewrites a terminal record.)
C8_TerminalStatusKept ==
    [][\A j \in DOMAIN jobs_storage :
        Terminal(jobs_storage[j].status)
            => jobs_storage'[j].status = jobs_storage[j].status]_vars

\* ----------------------------------------------------------------------- C9
\* C9: a job is in the registry from before its JobResponse on, and a status-check
\* answered between the JobResponse and the runner's terminal update is never the
\* not-found answer: it says processing, with progress 0 or 10.
C9_InFlightAnswer ==
    /\ [](\A j \in JobIds :
            pc[j] \in InFlight \cup {"registered"} => j \in DOMAIN jobs_storage)
    /\ [][(~Returned /\ Returned' /\ pc'[cjob'] \in InFlight)
            => /\ job_status'.code = 200
               /\ job_status'.status = "processing"
               /\ job_status'.progress \in {0, 10}]_vars

\* a status-check answered processing, progress 10, while the orchestrator polls
C9_Witness ==
    /\ Returned
    /\ pc[cjob] = "poll"
    /\ job_status.status = "processing"
    /\ job_status.progress = 10

\* ---------------------------------------------------------------------- C10
\* C10: a status-check for an id that is not in the registry is answered not-found
\* at once, and leaves the registry as it was.
C10_UnknownIdNotFound ==
    [][(cpc = 0 /\ cpc' # 0 /\ cjob' \notin DOMAIN jobs_storage)
            => /\ Returned'
               /\ job_status' = NotFound
               /\ jobs_storage' = jobs_storage]_vars

\* the not-found answer, given for an id no job was stored under
C10_Witness ==
    /\ Returned
    /\ job_status = NotFound
    /\ cjob \notin DOMAIN jobs_storage

\* ---------------------------------------------------------------------- C11
\* C11: a job identifier is assigned once: no step stores a job under an identifier
\* that is already in the registry, so a record keeps its creation time and never
\* goes back from completed or failed to processing. (Refuted under SpecCollision:
\* line 229 assigns without testing membership, so a repeated uuid4 replaces the
\* record.)
C11_IdentifierAssignedOnce ==
    [][\A j \in DOMAIN jobs_storage :
        /\ j \in DOMAIN jobs_storage'
        /\ jobs_storage'[j].created_at = jobs_storage[j].created_at
        /\ Terminal(jobs_storage[j].status) => Terminal(jobs_storage'[j].status)]_vars

\* ---------------------------------------------------------------------- C12
\* C12: a run goes submit, poll until terminal, fetch, persist, in that order;
\* storage changes only in a step of a run that is persisting, which it is only
\* after a completed snapshot and a fetched artifact; and a run that returns a
\* failure payload (submit error, missing generation identifier, provider
\* failure, timeout) returns from the submit or from the loop with storage as it
\* was.
C12_Order ==
    {<<"submit", "poll">>, <<"submit", "return">>,
     <<"poll", "fetch">>, <<"poll", "return">>,
     <<"fetch", "open">>, <<"fetch", "return">>,
     <<"open", "write">>, <<"open", "return">>,
     <<"write", "return">>}

C12_FailureReturns ==
    {[error |-> <<"Failed to start generation: ">> \o t] : t \in ProviderTexts}
    \cup {[error |-> <<"Missing generationId in response.">>],
          [error |-> <<"Gamma generation failed.">>],
          [error |-> <<"Gamma generation timed out.">>]}

C12_PersistLast ==
    [][/\ \A c \in Callers :
            /\ (pc[c] \in {"submit", "poll", "fetch", "open", "write"} /\ pc'[c] # pc[c])
                    => <<pc[c], pc'[c]>> \in C12_Order
            /\ pc'[c] \in {"fetch", "open", "write"} => status'[c] = <<"completed">>
            /\ pc'[c] \in {"open", "write"} => file_data'[c] \in Contents
            /\ (pc[c] # "return" /\ pc'[c] = "return" /\ "error" \in DOMAIN result'[c])
                    => /\ pc[c] \in {"submit", "poll"}
                       /\ result'[c] \in C12_FailureReturns
                       /\ files' = files
       /\ files' # files
            => \E c \in Callers : pc[c] \in {"open", "write"} /\ pc'[c] # pc[c]]_vars

\* a first run has returned the provider-failure payload and storage is empty
C12_Witness ==
    /\ pc[SyncCaller] = "return"
    /\ result[SyncCaller] = [error |-> <<"Gamma generation failed.">>]
    /\ status[SyncCaller] = <<"failed">>
    /\ DOMAIN files = {}

\* ---------------------------------------------------------------------- C13
\* C13: a status-check never answers with a status or progress that a mutation
\* has changed together with the updated_at from before that mutation: an answer
\* whose status or progress differs from the new record's carries a later
\* updated_at than the new record's. (Refuted: lines 268 and 269 are two
\* assignments and check_job_status takes no lock, so an answer can carry
\* progress 10 with the creation-time updated_at.)
C13_NoStaleStamp ==
    (Returned /\ job_status.code = 200
        /\ (job_status.status # NewJob.status \/ job_status.progress # NewJob.progress))
            => job_status.updated_at > NewJob.updated_at

\* ---------------------------------------------------------------------- C14
\* C14: the download handler hands a name to the file system only if the whole
\* name is one or more of [a-zA-Z0-9_-], a dot, and pdf or pptx; such a name is
\* never answered 400, and every other name is answered 400 with nothing handed
\* to the file system. (Refuted: the pattern ends in $, which also matches before
\* a final newline, so "report.pdf\n" passes and reaches os.path.exists.)
C14_Pattern(s) ==
    \E d \in 1..Len(s) :
        /\ d > 1
        /\ \A i \in 1..(d - 1) : s[i] \in NameChars
        /\ s[d] = "."
        /\ SubSeq(s, d + 1, Len(s)) \in {Pdf, Pptx}

C14_OnlyValidNamesTouchStorage ==
    /\ \A n \in touched : C14_Pattern(n)
    /\ (dpc # "idle" /\ C14_Pattern(file_name)) => download_response.code # 400
    /\ (dpc = "done" /\ ~C14_Pattern(file_name))
            => (download_response = InvalidName /\ touched = {})

\* ---------------------------------------------------------------------- C15
\* C15: in every state every job record has an integer progress in 0..100; a
\* completed record has progress 100 and a download locator, that of its file;
\* and while the orchestrator runs for a job its record already has progress 10.
C15_ProgressAndCompletion ==
    \A j \in DOMAIN jobs_storage :
        LET job == jobs_storage[j]
        IN  /\ job.progress \in 0..100
            /\ job.status = "completed"
                    => /\ job.progress = 100
                       /\ job.download_url # None
                       /\ job.download_url = DownloadUrl(job.file_name)
            /\ pc[j] \in {"submit", "poll", "fetch", "open", "write", "return"}
                    => job.progress = 10

\* a job is done and completed, at progress 100, its locator under /api/downloads/
C15_Witness ==
    \E j \in DOMAIN jobs_storage :
        /\ pc[j] = "done"
        /\ jobs_storage[j].status = "completed"
        /\ jobs_storage[j].progress = 100
        /\ \E g \in GenIds, f \in ExportFormats :
                jobs_storage[j].download_url = DownloadUrl(FileName(g, f))

\* ---------------------------------------------------------------------- C16
\* C16: a run sends at most 15 status GETs: it is in the loop only with fewer than
\* 15 sent. A snapshot reporting completed or failed ends the loop in the step that
\* reads it, with the failure payload for failed, so a run that is in the loop has
\* seen no terminal status, and past the loop no GET is sent (the count stays 0).
C16_PollsBounded ==
    /\ [](\A c \in Callers :
            /\ attempts[c] \in 0..(MaxAttempts - 1)
            /\ pc[c] = "poll" => status[c] \notin {<<"completed">>, <<"failed">>}
            /\ pc[c] \notin {"poll"} => attempts[c] = 0)
    /\ [][\A c \in Callers :
            (pc[c] = "poll" /\ status'[c] = <<"failed">>)
                => /\ pc'[c] = "return"
                   /\ result'[c] = [error |-> <<"Gamma generation failed.">>]]_vars

\* a run left the loop on a completed snapshot and is about to fetch the export
C16_Witness ==
    \E c \in Callers :
        /\ pc[c] = "fetch"
        /\ status[c] = <<"completed">>
        /\ attempts[c] = 0
        /\ export_url[c] \in ExportUrls

\* ---------------------------------------------------------------------- C17
\* the error create_presentation notes for a candidate that failed
C17_ErrorOf(a) ==
    IF a.exc # None THEN a.exc
    ELSE IF a.status_code >= 400 THEN StatusText(a)
    ELSE JSONDecodeErrorMsg

\* an answer with a status code below 400 / one whose body also decodes as JSON
C17_Success(a) == a.exc = None /\ a.status_code < 400
C17_Usable(a) == C17_Success(a) /\ a.json.kind # "invalid"

\* the candidates are contacted in the order of the list, none twice
C17_InOrder ==
    /\ Len(contacted) <= Len(GAMMA_ENDPOINTS)
    /\ \A i \in 1..Len(contacted) : contacted[i].url = <<"/content", "/documents", "/create">>[i]
    /\ client_pc = "try" => endpoint = Len(contacted) + 1

\* C17 as stated: the call returns the response of the first candidate answered
\* with a status code below 400 and contacts no later candidate; when none is,
\* it returns the failure dict with the last candidate's error. (Refuted: a
\* response below 400 whose body is not JSON makes response.json() raise inside
\* the try, and the loop goes on to the next candidate.)
C17_FirstSuccessReturned ==
    /\ C17_InOrder
    /\ client_pc = "done" =>
        /\ \A i \in 1..Len(contacted) :
                C17_Success(contacted[i].answer)
                    => (i = Len(contacted) /\ client_result = contacted[i].answer.json)
        /\ (\A i \in 1..Len(contacted) : ~C17_Success(contacted[i].answer))
                => /\ Len(contacted) = Len(GAMMA_ENDPOINTS)
                   /\ client_result = AllFailed(C17_ErrorOf(contacted[Len(contacted)].answer))

\* C17 amended: the call returns the decoded body of the first candidate answered
\* with a status code below 400 and a body that decodes as JSON, and contacts no
\* later candidate; a candidate that raises, answers 400 or above, or answers
\* with a body that is not JSON has failed, and when all three have, the call
\* returns the failure dict whose last_attempt is the error of the third.
C17_FirstUsableReturned ==
    /\ C17_InOrder
    /\ client_pc = "done" =>
        /\ \A i \in 1..Len(contacted) :
                C17_Usable(contacted[i].answer)
                    => (i = Len(contacted) /\ client_result = contacted[i].answer.json)
        /\ (\A i \in 1..Len(contacted) : ~C17_Usable(contacted[i].answer))
                => /\ Len(contacted) = Len(GAMMA_ENDPOINTS)
                   /\ client_result = AllFailed(C17_ErrorOf(contacted[Len(contacted)].answer))

\* /content answered 500, /documents answered 200 with a body: the call returned
\* that body and /create was not contacted
C17_Witness ==
    /\ client_pc = "done"
    /\ Len(contacted) = 2
    /\ contacted[1].answer.status_code = 500
    /\ contacted[2].answer.status_code = 200
    /\ client_result = contacted[2].answer.json

\* ---------------------------------------------------------------------- C18
\* C18: a successful synchronous response describes the generation the provider
\* assigned: for the assigned identifier g and the requested format f, file_name
\* is g.f, download_url is /api/downloads/ followed by file_name, and generation_id
\* is g. (Refuted: generation_id is file_name.split('.')[0], which is g only when
\* g has no dot.)
C18_DescriptorConsistent ==
    sync_response.success
        => \E g \in GenIds, f \in ExportFormats :
                /\ sync_response.file_name = g \o <<".">> \o f
                /\ sync_response.download_url = <<"/api/downloads/">> \o sync_response.file_name
                /\ sync_response.generation_id = g

\* ---------------------------------------------------------------------- C19
\* C19: a job record says completed, and a status-check answers completed with a
\* download locator, only when the file the locator names is in storage with the
\* whole artifact in it.
C19_Complete(locator) ==
    \E name \in DOMAIN files :
        /\ locator = DownloadUrl(name)
        /\ files[name] \in Contents

C19_CompletedAfterPersist ==
    /\ \A j \in DOMAIN jobs_storage :
            jobs_storage[j].status = "completed" => C19_Complete(jobs_storage[j].download_url)
    /\ (Returned /\ job_status.status = "completed") => C19_Complete(job_status.download_url)

\* a status-check answered completed while another job was writing its own file
C19_Witness ==
    /\ Returned
    /\ job_status.status = "completed"
    /\ C19_Complete(job_status.download_url)
    /\ \E j \in ConcurrentIds : j # cjob /\ pc[j] = "write"

\* ---------------------------------------------------------------------- C20
\* the record a job ends with when it runs alone and its orchestrator returns res
\* or raises exc: created (two clock readings), stamped by the runner, updated once
C20_Alone(res, exc) ==
    LET failed(msg) ==
            [status |-> "failed", progress |-> 10, download_url |-> None, error |-> msg,
             created_at |-> 1, updated_at |-> 4, file_name |-> None, gamma_url |-> None]
    IN  IF exc # None THEN failed(exc)
        ELSE IF "error" \in DOMAIN res THEN failed(res.error)
        ELSE [status |-> "completed", progress |-> 100,
              download_url |-> <<"/api/downloads/">> \o res.file, error |-> None,
              created_at |-> 1, updated_at |-> 4, file_name |-> res.file,
              gamma_url |-> res.url]

\* C20: with several jobs in flight and status-checks among them, a step changes
\* the record of at most one job and is a step of that job's own handler or runner;
\* and the record a runner leaves is the one the job reaches alone with the same
\* outcome of its orchestrator run.
C20_JobsIndependent ==
    [][\A j \in DOMAIN jobs_storage :
        /\ jobs_storage'[j] # jobs_storage[j]
                => /\ pc'[j] # pc[j]
                   /\ \A k \in DOMAIN jobs_storage \ {j} :
                        jobs_storage'[k] = jobs_storage[k] /\ pc'[k] = pc[k]
        /\ (pc[j] = "return" /\ pc'[j] = "done")
                => jobs_storage'[j] = C20_Alone(result[j], raised[j])]_vars

\* the second job is done and completed while the first, also started, still polls
C20_Witness ==
    /\ {1, 2} \subseteq DOMAIN jobs_storage
    /\ pc[2] = "done"
    /\ jobs_storage[2].status = "completed"
    /\ pc[1] = "poll"
    /\ jobs_storage[1].status = "processing"

====
